---- MODULE Spec2Model ----
(***************************************************************************)
(* ProvableMerkleTrees: the digest tree (MerkleTree::create), the two      *)
(* gadgets (PairwiseHash, RecursivePairwiseHash) and the level-by-level    *)
(* ascent of MerkleTree::proof, with the plonky2 backend reduced to what   *)
(* the gadgets use of it: virtual targets, hash gates, copy constraints,   *)
(* public inputs, and a prover that succeeds exactly on a witness that     *)
(* satisfies every copy constraint.                                        *)
(***************************************************************************)
EXTENDS Integers, Sequences, FiniteSets, TLC

\* Largest ilog2 of the number of leaves handed to MerkleTree::create.
MaxHeight == 2

\* Number of field elements of a HashOut.
NUM_HASH_OUT_ELTS == 4

(***************************************************************************)
(* Field elements and the hash.  A field element is a term: either a base  *)
(* value k (in = <<>>) or output number k of the Poseidon permutation      *)
(* applied to the sequence in.  Two terms are equal exactly when they were *)
(* built the same way: the permutation is collision free.                  *)
(***************************************************************************)
Fe(k) == [k |-> k, in |-> <<>>]

ZERO == Fe(0)

ONE == Fe(1)

\* 0-based indexing of a Vec, as in the source.
At(s, i) == s[i + 1]

Last(s) == s[Len(s)]

\* A sequence given element by element, held as a tuple.
Vec(f) == f \o <<>>

\* The four outputs of one permutation, when they sit side by side in an
\* input (a whole HashOut being hashed again), are written once, as
\* [k |-> -1, in |-> x]: the same term in less space.  No field element has
\* k = -1, so the packed form determines the input.
IsHashOut(s, p) ==
    /\ p + 3 <= Len(s)
    /\ s[p].in # <<>>
    /\ \A i \in 0..3 : s[p + i] = [k |-> i, in |-> s[p].in]

RECURSIVE Pack(_, _)
Pack(s, p) ==
    IF p > Len(s) THEN <<>>
    ELSE IF IsHashOut(s, p) THEN <<[k |-> -1, in |-> s[p].in]>> \o Pack(s, p + 4)
    ELSE <<s[p]>> \o Pack(s, p + 1)

\* The Poseidon permutation (hash_no_pad): output k of the input sequence.
permute(inputs) ==
    LET packed == Pack(inputs, 1)
    IN  Vec([i \in 1..NUM_HASH_OUT_ELTS |-> [k |-> i - 1, in |-> packed]])

\* Hasher::hash_or_noop: up to four elements are copied into the HashOut and
\* padded with zeros, anything longer goes through the permutation.
hash_or_noop(inputs) ==
    IF Len(inputs) <= NUM_HASH_OUT_ELTS
    THEN Vec([i \in 1..NUM_HASH_OUT_ELTS |-> IF i <= Len(inputs) THEN inputs[i] ELSE ZERO])
    ELSE permute(inputs)

Pow2(k) == 2 ^ k

is_power_of_two(n) == \E k \in 0..n : n = Pow2(k)

\* usize::ilog2 for n > 0 (it panics on 0, which Create handles).
ilog2(n) == CHOOSE k \in 0..n : Pow2(k) <= n /\ n < Pow2(k + 1)

(***************************************************************************)
(* The proving backend as the gadgets use it.  A target is <<name, i>>.    *)
(* A circuit is the record the CircuitBuilder calls leave behind: its hash *)
(* gates, its copy constraints (connect), its registered public inputs and *)
(* the names of its virtual proof targets.  A witness binds targets to     *)
(* field elements and proof targets to child proofs.                       *)
(***************************************************************************)
\* CircuitBuilder::add_virtual_targets(n) / add_virtual_hash().
add_virtual_targets(name, n) == Vec([i \in 1..n |-> <<name, i>>])

add_virtual_hash(name) == add_virtual_targets(name, NUM_HASH_OUT_ELTS)

\* CircuitBuilder::connect_hashes: one copy constraint per element.
connect_hashes(x, y) == {<<x[i], y[i]>> : i \in 1..NUM_HASH_OUT_ELTS}

\* PartialWitness::set_target over a vector of targets.
set_targets(targets, values) ==
    [t \in {targets[i] : i \in 1..Len(targets)} |-> values[t[2]]]

\* The value a target takes once the generators have run: what the witness
\* sets, the constants _true() and _false(), or the output of its hash gate.
TargetValue(circuit, witness, t) ==
    IF t \in DOMAIN witness.values THEN witness.values[t]
    ELSE IF t[1] = "_true" THEN ONE
    ELSE IF t[1] = "_false" THEN ZERO
    ELSE LET g == CHOOSE g \in {circuit.gates[i] : i \in 1..Len(circuit.gates)} : g.out = t[1]
         IN  hash_or_noop(Vec([j \in 1..Len(g.in) |-> witness.values[g.in[j]]]))[t[2]]

\* Every copy constraint joins two targets of equal value.
Satisfied(circuit, witness) ==
    \A c \in circuit.connects :
        TargetValue(circuit, witness, c[1]) = TargetValue(circuit, witness, c[2])

\* ProofData { proof_with_pis, circuit_data }: the gadget whose circuit it
\* is, the public inputs, whether the proof is one the prover produced for
\* that circuit and inputs (genuine), and the child proofs its witness held.
NoProofData == [gadget |-> "none", public_inputs |-> <<>>, genuine |-> FALSE, inner |-> <<>>]

\* An Err(anyhow::Error): the failure, and the context the callers attached
\* to it on its way up (anyhow's context chain). No caller in the crate
\* attaches any: every `?` hands the backend's error on as it is.
Err(kind) == [status |-> kind, proof_data |-> NoProofData, context |-> <<>>]

Ok(pd) == [status |-> "ok", proof_data |-> pd]

\* CircuitBuilder::build followed by CircuitData::prove.
prove(gadget, circuit, witness) ==
    IF Satisfied(circuit, witness)
    THEN Ok([gadget |-> gadget,
             public_inputs |-> Vec([i \in 1..Len(circuit.public_inputs) |->
                                   TargetValue(circuit, witness, circuit.public_inputs[i])]),
             genuine |-> TRUE,
             inner |-> witness.proofs])
    ELSE Err("prove_failed")

\* CircuitData::verify on a ProofData, as prove_and_verify calls it.
verify(pd) == pd.genuine

(***************************************************************************)
(* PairwiseHash: the leaf-level gadget.                                    *)
(***************************************************************************)
HashDataNew(data, hash) == [data |-> data, hash |-> hash]

\* Mutant of new: parent_hash is computed from the hashes of the child data,
\* not from the child hashes given.
PairwiseHashNew_ParentFromData(left_child_data, left_child_hash, right_child_data, right_child_hash) ==
    LET left_child == HashDataNew(left_child_data, left_child_hash)
        right_child == HashDataNew(right_child_data, right_child_hash)
    IN  [left_child |-> left_child,
         right_child |-> right_child,
         parent_hash |-> hash_or_noop(hash_or_noop(left_child.data)
                                      \o hash_or_noop(right_child.data))]

PairwiseHashNew(left_child_data, left_child_hash, right_child_data, right_child_hash) ==
    LET left_child == HashDataNew(left_child_data, left_child_hash)
        right_child == HashDataNew(right_child_data, right_child_hash)
    IN  [left_child |-> left_child,
         right_child |-> right_child,
         parent_hash |-> hash_or_noop(left_child.hash \o right_child.hash)]

\* Mutant of compile: the left child hash is not connected to the hash of
\* the left data.
PairwiseHashCompile_NoLeftConnect(self) ==
    LET left_data_targets == add_virtual_targets("left_data", Len(self.left_child.data))
        right_data_targets == add_virtual_targets("right_data", Len(self.right_child.data))
        left_hash_targets == add_virtual_hash("left_hash")
        right_hash_targets == add_virtual_hash("right_hash")
        should_be_left_hash_targets == add_virtual_hash("should_be_left_hash")
        should_be_right_hash_targets == add_virtual_hash("should_be_right_hash")
        parent_hash_targets == add_virtual_hash("parent_hash")
        should_be_parent_hash_targets == add_virtual_hash("should_be_parent_hash")
    IN  [gates |-> << [in |-> left_data_targets, out |-> "should_be_left_hash"],
                      [in |-> right_data_targets, out |-> "should_be_right_hash"],
                      [in |-> left_hash_targets \o right_hash_targets,
                       out |-> "should_be_parent_hash"] >>,
         connects |-> connect_hashes(should_be_right_hash_targets, right_hash_targets)
                      \cup connect_hashes(should_be_parent_hash_targets, parent_hash_targets),
         public_inputs |-> parent_hash_targets,
         panicked |-> FALSE]

\* Mutant of compile: the right child hash is not connected to the hash of
\* the right data.
PairwiseHashCompile_NoRightConnect(self) ==
    LET left_data_targets == add_virtual_targets("left_data", Len(self.left_child.data))
        right_data_targets == add_virtual_targets("right_data", Len(self.right_child.data))
        left_hash_targets == add_virtual_hash("left_hash")
        right_hash_targets == add_virtual_hash("right_hash")
        should_be_left_hash_targets == add_virtual_hash("should_be_left_hash")
        should_be_right_hash_targets == add_virtual_hash("should_be_right_hash")
        parent_hash_targets == add_virtual_hash("parent_hash")
        should_be_parent_hash_targets == add_virtual_hash("should_be_parent_hash")
    IN  [gates |-> << [in |-> left_data_targets, out |-> "should_be_left_hash"],
                      [in |-> right_data_targets, out |-> "should_be_right_hash"],
                      [in |-> left_hash_targets \o right_hash_targets,
                       out |-> "should_be_parent_hash"] >>,
         connects |-> connect_hashes(should_be_left_hash_targets, left_hash_targets)
                      \cup connect_hashes(should_be_parent_hash_targets, parent_hash_targets),
         public_inputs |-> parent_hash_targets,
         panicked |-> FALSE]

\* Mutant of compile: the hash of the two child hashes is not connected to
\* parent_hash.
PairwiseHashCompile_NoParentConnect(self) ==
    LET left_data_targets == add_virtual_targets("left_data", Len(self.left_child.data))
        right_data_targets == add_virtual_targets("right_data", Len(self.right_child.data))
        left_hash_targets == add_virtual_hash("left_hash")
        right_hash_targets == add_virtual_hash("right_hash")
        should_be_left_hash_targets == add_virtual_hash("should_be_left_hash")
        should_be_right_hash_targets == add_virtual_hash("should_be_right_hash")
        parent_hash_targets == add_virtual_hash("parent_hash")
        should_be_parent_hash_targets == add_virtual_hash("should_be_parent_hash")
    IN  [gates |-> << [in |-> left_data_targets, out |-> "should_be_left_hash"],
                      [in |-> right_data_targets, out |-> "should_be_right_hash"],
                      [in |-> left_hash_targets \o right_hash_targets,
                       out |-> "should_be_parent_hash"] >>,
         connects |-> connect_hashes(should_be_left_hash_targets, left_hash_targets)
                      \cup connect_hashes(should_be_right_hash_targets, right_hash_targets),
         public_inputs |-> parent_hash_targets,
         panicked |-> FALSE]

PairwiseHashCompile(self) ==
    LET left_data_targets == add_virtual_targets("left_data", Len(self.left_child.data))
        right_data_targets == add_virtual_targets("right_data", Len(self.right_child.data))
        left_hash_targets == add_virtual_hash("left_hash")
        right_hash_targets == add_virtual_hash("right_hash")
        should_be_left_hash_targets == add_virtual_hash("should_be_left_hash")
        should_be_right_hash_targets == add_virtual_hash("should_be_right_hash")
        parent_hash_targets == add_virtual_hash("parent_hash")
        should_be_parent_hash_targets == add_virtual_hash("should_be_parent_hash")
    IN  [gates |-> << [in |-> left_data_targets, out |-> "should_be_left_hash"],
                      [in |-> right_data_targets, out |-> "should_be_right_hash"],
                      [in |-> left_hash_targets \o right_hash_targets,
                       out |-> "should_be_parent_hash"] >>,
         connects |-> connect_hashes(should_be_left_hash_targets, left_hash_targets)
                      \cup connect_hashes(should_be_right_hash_targets, right_hash_targets)
                      \cup connect_hashes(should_be_parent_hash_targets, parent_hash_targets),
         public_inputs |-> parent_hash_targets,
         panicked |-> FALSE]

\* CircuitCompiler::evaluate.
PairwiseHashEvaluate(self) == self.parent_hash

PairwiseHashFill(self) ==
    [values |-> set_targets(add_virtual_targets("left_data", Len(self.left_child.data)),
                            self.left_child.data)
                @@ set_targets(add_virtual_targets("right_data", Len(self.right_child.data)),
                               self.right_child.data)
                @@ set_targets(add_virtual_hash("left_hash"), self.left_child.hash)
                @@ set_targets(add_virtual_hash("right_hash"), self.right_child.hash)
                @@ set_targets(add_virtual_hash("parent_hash"), self.parent_hash),
     proofs |-> <<>>]

PairwiseHashProof(self) ==
    prove("PairwiseHash", PairwiseHashCompile(self), PairwiseHashFill(self))

(***************************************************************************)
(* RecursivePairwiseHash: the internal-level gadget.                       *)
(***************************************************************************)
RecursiveHashNew(hash, proof_data) == [hash |-> hash, proof_data |-> proof_data]

RecursivePairwiseHashNew(left_recursive_hash, right_recursive_hash) ==
    [left_recursive_hash |-> left_recursive_hash,
     right_recursive_hash |-> right_recursive_hash,
     parent_hash |-> hash_or_noop(left_recursive_hash.hash \o right_recursive_hash.hash)]

\* Mutant of compile: the public inputs of the left child proof are not
\* connected to the left child hash.
RecursivePairwiseHashCompile_NoChildConnect(self) ==
    LET left_hash_targets == add_virtual_hash("left_hash")
        right_hash_targets == add_virtual_hash("right_hash")
        parent_hash_targets == add_virtual_hash("parent_hash")
        should_be_parent_hash_targets == add_virtual_hash("should_be_parent_hash")
        left_public_inputs ==
            add_virtual_targets("left_proof_public_inputs",
                                Len(self.left_recursive_hash.proof_data.public_inputs))
        right_public_inputs ==
            add_virtual_targets("right_proof_public_inputs",
                                Len(self.right_recursive_hash.proof_data.public_inputs))
        true_false == {<< <<"_true", 1>>, <<"_false", 1>> >>}
        panicked == \/ Len(left_public_inputs) < NUM_HASH_OUT_ELTS
                    \/ Len(right_public_inputs) < NUM_HASH_OUT_ELTS
    IN  [gates |-> << [in |-> left_hash_targets \o right_hash_targets,
                       out |-> "should_be_parent_hash"] >>,
         connects |->
            IF panicked THEN {}
            ELSE connect_hashes(should_be_parent_hash_targets, parent_hash_targets)
                 \cup (IF Len(left_public_inputs) # NUM_HASH_OUT_ELTS THEN true_false ELSE {})
                 \cup (IF Len(right_public_inputs) # NUM_HASH_OUT_ELTS THEN true_false ELSE {})
                 \cup connect_hashes(right_public_inputs, right_hash_targets),
         public_inputs |-> parent_hash_targets,
         panicked |-> panicked]

\* add_virtual_proof_with_pis(common) allocates common.num_public_inputs public
\* input targets; indexing public_inputs[i] for i in 0..4 panics when there
\* are fewer.  The circuit has no gate that verifies either child proof.
RecursivePairwiseHashCompile(self) ==
    LET left_hash_targets == add_virtual_hash("left_hash")
        right_hash_targets == add_virtual_hash("right_hash")
        parent_hash_targets == add_virtual_hash("parent_hash")
        should_be_parent_hash_targets == add_virtual_hash("should_be_parent_hash")
        left_public_inputs ==
            add_virtual_targets("left_proof_public_inputs",
                                Len(self.left_recursive_hash.proof_data.public_inputs))
        right_public_inputs ==
            add_virtual_targets("right_proof_public_inputs",
                                Len(self.right_recursive_hash.proof_data.public_inputs))
        true_false == {<< <<"_true", 1>>, <<"_false", 1>> >>}
        panicked == \/ Len(left_public_inputs) < NUM_HASH_OUT_ELTS
                    \/ Len(right_public_inputs) < NUM_HASH_OUT_ELTS
    IN  [gates |-> << [in |-> left_hash_targets \o right_hash_targets,
                       out |-> "should_be_parent_hash"] >>,
         connects |->
            IF panicked THEN {}
            ELSE connect_hashes(should_be_parent_hash_targets, parent_hash_targets)
                 \cup (IF Len(left_public_inputs) # NUM_HASH_OUT_ELTS THEN true_false ELSE {})
                 \cup connect_hashes(left_public_inputs, left_hash_targets)
                 \cup (IF Len(right_public_inputs) # NUM_HASH_OUT_ELTS THEN true_false ELSE {})
                 \cup connect_hashes(right_public_inputs, right_hash_targets),
         public_inputs |-> parent_hash_targets,
         panicked |-> panicked]

\* CircuitCompiler::evaluate.
RecursivePairwiseHashEvaluate(self) == self.parent_hash

RecursivePairwiseHashFill(self) ==
    [values |-> set_targets(add_virtual_hash("left_hash"), self.left_recursive_hash.hash)
                @@ set_targets(add_virtual_hash("right_hash"), self.right_recursive_hash.hash)
                @@ set_targets(add_virtual_hash("parent_hash"), self.parent_hash)
                @@ set_targets(add_virtual_targets("left_proof_public_inputs",
                                   Len(self.left_recursive_hash.proof_data.public_inputs)),
                               self.left_recursive_hash.proof_data.public_inputs)
                @@ set_targets(add_virtual_targets("right_proof_public_inputs",
                                   Len(self.right_recursive_hash.proof_data.public_inputs)),
                               self.right_recursive_hash.proof_data.public_inputs),
     proofs |-> <<self.left_recursive_hash.proof_data, self.right_recursive_hash.proof_data>>]

RecursivePairwiseHashProof(self) ==
    LET circuit == RecursivePairwiseHashCompile(self)
    IN  IF circuit.panicked THEN Err("panic")
        ELSE prove("RecursivePairwiseHash", circuit, RecursivePairwiseHashFill(self))

(***************************************************************************)
(* MerkleTree::create.                                                     *)
(***************************************************************************)
\* Mutant of the loops: the pair is hashed right child first.
RECURSIVE CreateLoop_SwappedPair(_, _, _, _, _)
CreateLoop_SwappedPair(digests, i, current_tree_height_index, height, merkle_tree_height) ==
    IF height = merkle_tree_height THEN digests
    ELSE IF i < current_tree_height_index + Pow2(merkle_tree_height - height)
    THEN CreateLoop_SwappedPair(Append(digests, hash_or_noop(At(digests, i + 1) \o At(digests, i))),
                    i + 2, current_tree_height_index, height, merkle_tree_height)
    ELSE CreateLoop_SwappedPair(digests, i,
                    current_tree_height_index + Pow2(merkle_tree_height - height),
                    height + 1, merkle_tree_height)

\* Mutant of the loops: current_tree_height_index is never advanced.
RECURSIVE CreateLoop_NoLevelAdvance(_, _, _, _, _)
CreateLoop_NoLevelAdvance(digests, i, current_tree_height_index, height, merkle_tree_height) ==
    IF height = merkle_tree_height THEN digests
    ELSE IF i < current_tree_height_index + Pow2(merkle_tree_height - height)
    THEN CreateLoop_NoLevelAdvance(Append(digests, hash_or_noop(At(digests, i) \o At(digests, i + 1))),
                    i + 2, current_tree_height_index, height, merkle_tree_height)
    ELSE CreateLoop_NoLevelAdvance(digests, i,
                    current_tree_height_index,
                    height + 1, merkle_tree_height)

RECURSIVE CreateLoop(_, _, _, _, _)
\* The two nested loops of create: `height` is the for variable, `i` and
\* `current_tree_height_index` the two counters that live across levels.
CreateLoop(digests, i, current_tree_height_index, height, merkle_tree_height) ==
    IF height = merkle_tree_height THEN digests
    ELSE IF i < current_tree_height_index + Pow2(merkle_tree_height - height)
    THEN CreateLoop(Append(digests, hash_or_noop(At(digests, i) \o At(digests, i + 1))),
                    i + 2, current_tree_height_index, height, merkle_tree_height)
    ELSE CreateLoop(digests, i,
                    current_tree_height_index + Pow2(merkle_tree_height - height),
                    height + 1, merkle_tree_height)

\* debug_assert! is checked only in a build with debug assertions; ilog2
\* panics on zero in every build.  A panic leaves no tree: `leaves` then only
\* records the data create was called with.
Create(debug, data) ==
    IF \/ debug /\ ~(is_power_of_two(Len(data)) /\ Len(data) > 1)
       \/ Len(data) = 0
    THEN [panicked |-> TRUE, leaves |-> data, digests |-> <<>>, root |-> <<>>]
    ELSE LET digests == CreateLoop([i \in 1..Len(data) |-> hash_or_noop(data[i])],
                                   0, 0, 0, ilog2(Len(data)))
         IN  [panicked |-> FALSE, leaves |-> data, digests |-> digests, root |-> Last(digests)]

(***************************************************************************)
(* State.                                                                  *)
(***************************************************************************)
VARIABLES
    debug_assertions,          \* the build checks debug_assert!
    leaves, digests, root,     \* the MerkleTree
    tampered,                  \* which fields were overwritten after create
    pc,                        \* "created", "level", "root_equality", "done", "idle"
    height,                    \* the for variable of MerkleTree::proof
    proof_datas,
    current_child_hash_index,
    proof_data_index,
    thread_proof_datas,        \* the parallel tasks of the current level
    steps,                     \* every proving step run so far, with its outcome
    result,                    \* what MerkleTree::proof returned
    node,                      \* a gadget built on its own, as the unit tests do
    node_result                \* what its proof() returned

vars == <<debug_assertions, leaves, digests, root, tampered, pc, height, proof_datas,
          current_child_hash_index, proof_data_index, thread_proof_datas, steps, result,
          node, node_result>>

tree_vars == <<debug_assertions, leaves, digests, root, tampered, pc, height, proof_datas,
               current_child_hash_index, proof_data_index, thread_proof_datas, steps,
               result>>

\* Leaf data of the tests: distinct single elements (test_merkle_tree), the
\* same element everywhere (test_large_tree_proof_and_verification), and
\* leaves long enough to go through the permutation.
LeafInputs ==
    UNION {{[i \in 1..n |-> <<Fe(i)>>],
            [i \in 1..n |-> <<ZERO>>],
            [i \in 1..n |-> <<Fe(i), ONE, ONE, ONE, ONE>>]} : n \in 0..Pow2(MaxHeight)}

\* The digest the tests overwrite a stored digest with (merkle_tree.rs:195).
TamperDigests == {hash_or_noop(<<ZERO>>)}

\* Leaf data the tests overwrite a leaf with (merkle_tree.rs:210), and data
\* that hash_or_noop pads to the digest of <<ONE>>.
TamperLeaves == {<<ZERO>>, <<ONE, ZERO>>}

NoTasks == <<>>

Pending(n) == [j \in 1..n |-> [state |-> "pending", out |-> NoProofData]]

merkle_tree_height == ilog2(Len(leaves))

chunk_size == Pow2(merkle_tree_height - height)

Untampered == [digest |-> -1, leaf |-> -1, root |-> FALSE]

InitTree ==
    \E debug \in BOOLEAN, data \in LeafInputs :
        LET tree == Create(debug, data)
        IN  /\ debug_assertions = debug
            /\ leaves = tree.leaves
            /\ digests = tree.digests
            /\ root = tree.root
            /\ tampered = Untampered
            /\ pc = IF tree.panicked THEN "done" ELSE "created"
            /\ height = 0
            /\ proof_datas = <<>>
            /\ current_child_hash_index = 0
            /\ proof_data_index = 0
            /\ thread_proof_datas = NoTasks
            /\ steps = {}
            /\ result = IF tree.panicked THEN Err("panic") ELSE Err("none")

NoNode == [kind |-> "none"]

Init ==
    /\ InitTree
    /\ node = NoNode
    /\ node_result = Err("none")

(***************************************************************************)
(* The corruptions of the tests: a field of the tree is overwritten        *)
(* between create and proof.                                               *)
(***************************************************************************)
TamperDigest(i, d) ==
    /\ pc = "created"
    /\ tampered.digest = -1
    /\ At(digests, i) # d
    /\ digests' = [digests EXCEPT ![i + 1] = d]
    /\ tampered' = [tampered EXCEPT !.digest = i]
    /\ UNCHANGED <<debug_assertions, leaves, root, pc, height, proof_datas,
                   current_child_hash_index, proof_data_index, thread_proof_datas, steps,
                   result, node, node_result>>

TamperLeaf(i, data) ==
    /\ pc = "created"
    /\ tampered.leaf = -1
    /\ At(leaves, i) # data
    /\ leaves' = [leaves EXCEPT ![i + 1] = data]
    /\ tampered' = [tampered EXCEPT !.leaf = i]
    /\ UNCHANGED <<debug_assertions, digests, root, pc, height, proof_datas,
                   current_child_hash_index, proof_data_index, thread_proof_datas, steps,
                   result, node, node_result>>

TamperRoot(d) ==
    /\ pc = "created"
    /\ ~tampered.root
    /\ root # d
    /\ root' = d
    /\ tampered' = [tampered EXCEPT !.root = TRUE]
    /\ UNCHANGED <<debug_assertions, leaves, digests, pc, height, proof_datas,
                   current_child_hash_index, proof_data_index, thread_proof_datas, steps,
                   result, node, node_result>>

(***************************************************************************)
(* MerkleTree::proof.                                                      *)
(***************************************************************************)
\* Entry: the locals are initialised and the for loop is entered, or skipped
\* when the height is 0.
BeginProof ==
    /\ pc = "created"
    /\ height' = 0
    /\ proof_datas' = <<>>
    /\ current_child_hash_index' = 0
    /\ proof_data_index' = 0
    /\ IF merkle_tree_height = 0
       THEN pc' = "root_equality" /\ thread_proof_datas' = NoTasks
       ELSE pc' = "level" /\ thread_proof_datas' = Pending(Pow2(merkle_tree_height) \div 2)
    /\ UNCHANGED <<debug_assertions, leaves, digests, root, tampered, steps, result,
                   node, node_result>>

\* The closure of the map at height 0 for the item at `position`.
LeafTask(position) ==
    LET current_child_index == current_child_hash_index + 2 * position
        pairwise_hash == PairwiseHashNew(At(leaves, current_child_index),
                                         At(digests, current_child_index),
                                         At(leaves, current_child_index + 1),
                                         At(digests, current_child_index + 1))
    IN  PairwiseHashProof(pairwise_hash)

\* Mutant of the closure: the child digests are read from the start of
\* digests, without current_child_hash_index.
InnerTask_NoOffset(position) ==
    LET current_child_index == 2 * position
        task_proof_data_index == proof_data_index + 2 * position
        left_recursive_hash == RecursiveHashNew(At(digests, current_child_index),
                                                At(proof_datas, task_proof_data_index))
        right_recursive_hash == RecursiveHashNew(At(digests, current_child_index + 1),
                                                 At(proof_datas, task_proof_data_index + 1))
        recursive_pairwise_hash ==
            RecursivePairwiseHashNew(left_recursive_hash, right_recursive_hash)
    IN  RecursivePairwiseHashProof(recursive_pairwise_hash)

\* Mutant of the closure: the left digest is paired with the right child's
\* proof and the right digest with the left child's.
InnerTask_SwappedProofs(position) ==
    LET current_child_index == current_child_hash_index + 2 * position
        task_proof_data_index == proof_data_index + 2 * position
        left_recursive_hash == RecursiveHashNew(At(digests, current_child_index),
                                                At(proof_datas, task_proof_data_index + 1))
        right_recursive_hash == RecursiveHashNew(At(digests, current_child_index + 1),
                                                 At(proof_datas, task_proof_data_index))
        recursive_pairwise_hash ==
            RecursivePairwiseHashNew(left_recursive_hash, right_recursive_hash)
    IN  RecursivePairwiseHashProof(recursive_pairwise_hash)

\* The closure of the map at a height above 0 for the zipped item at `position`.
InnerTask(position) ==
    LET current_child_index == current_child_hash_index + 2 * position
        task_proof_data_index == proof_data_index + 2 * position
        left_recursive_hash == RecursiveHashNew(At(digests, current_child_index),
                                                At(proof_datas, task_proof_data_index))
        right_recursive_hash == RecursiveHashNew(At(digests, current_child_index + 1),
                                                 At(proof_datas, task_proof_data_index + 1))
        recursive_pairwise_hash ==
            RecursivePairwiseHashNew(left_recursive_hash, right_recursive_hash)
    IN  RecursivePairwiseHashProof(recursive_pairwise_hash)

\* One rayon task of the current level runs to completion, in any order.
RunTask(position) ==
    /\ pc = "level"
    /\ At(thread_proof_datas, position).state = "pending"
    /\ LET out == IF height = 0 THEN LeafTask(position) ELSE InnerTask(position)
       IN  /\ thread_proof_datas' =
                 [thread_proof_datas EXCEPT ![position + 1] =
                     [state |-> IF out.status = "ok" THEN "done" ELSE "failed",
                      out |-> out.proof_data]]
           /\ steps' = steps \cup {[height |-> height, position |-> position,
                                     gadget |-> IF height = 0 THEN "PairwiseHash"
                                                ELSE "RecursivePairwiseHash",
                                     ok |-> out.status = "ok"]}
    /\ UNCHANGED <<debug_assertions, leaves, digests, root, tampered, pc, height,
                   proof_datas, current_child_hash_index, proof_data_index, result,
                   node, node_result>>

\* collect::<Result<Vec<_>, _>>() stops feeding items once one has failed: a
\* task that has not started yet may never run.
SkipTask(position) ==
    /\ pc = "level"
    /\ At(thread_proof_datas, position).state = "pending"
    /\ \E j \in 1..Len(thread_proof_datas) : thread_proof_datas[j].state = "failed"
    /\ thread_proof_datas' =
          [thread_proof_datas EXCEPT ![position + 1] = [state |-> "skipped", out |-> NoProofData]]
    /\ UNCHANGED <<debug_assertions, leaves, digests, root, tampered, pc, height,
                   proof_datas, current_child_hash_index, proof_data_index, steps, result,
                   node, node_result>>

\* Mutant of the loop: for height in 0..(merkle_tree_height - 1), the last
\* level is never built.
FinishLevel_StopsOneLevelEarly ==
    /\ pc = "level"
    /\ \A j \in 1..Len(thread_proof_datas) : thread_proof_datas[j].state # "pending"
    /\ IF \E j \in 1..Len(thread_proof_datas) : thread_proof_datas[j].state = "failed"
       THEN /\ result' = Err("prove_failed")
            /\ pc' = "done"
            /\ UNCHANGED <<height, proof_datas, current_child_hash_index, proof_data_index,
                           thread_proof_datas>>
       ELSE /\ proof_datas' = proof_datas \o [j \in 1..Len(thread_proof_datas) |->
                                                  thread_proof_datas[j].out]
            /\ proof_data_index' = IF height = 0 THEN proof_data_index
                                   ELSE proof_data_index + chunk_size
            /\ current_child_hash_index' = current_child_hash_index + chunk_size
            /\ height' = height + 1
            /\ IF height + 1 < merkle_tree_height - 1
               THEN /\ pc' = "level"
                    /\ thread_proof_datas' =
                          Pending(Pow2(merkle_tree_height - (height + 1)) \div 2)
               ELSE /\ pc' = "root_equality"
                    /\ thread_proof_datas' = NoTasks
            /\ UNCHANGED result
    /\ UNCHANGED <<debug_assertions, leaves, digests, root, tampered, steps, node,
                   node_result>>

\* Mutant of the collect: the proofs of a level are stored last position
\* first.
FinishLevel_ReversedOrder ==
    /\ pc = "level"
    /\ \A j \in 1..Len(thread_proof_datas) : thread_proof_datas[j].state # "pending"
    /\ IF \E j \in 1..Len(thread_proof_datas) : thread_proof_datas[j].state = "failed"
       THEN /\ result' = Err("prove_failed")
            /\ pc' = "done"
            /\ UNCHANGED <<height, proof_datas, current_child_hash_index, proof_data_index,
                           thread_proof_datas>>
       ELSE /\ proof_datas' =
                  proof_datas \o [j \in 1..Len(thread_proof_datas) |->
                      thread_proof_datas[Len(thread_proof_datas) + 1 - j].out]
            /\ proof_data_index' = IF height = 0 THEN proof_data_index
                                   ELSE proof_data_index + chunk_size
            /\ current_child_hash_index' = current_child_hash_index + chunk_size
            /\ height' = height + 1
            /\ IF height + 1 < merkle_tree_height
               THEN /\ pc' = "level"
                    /\ thread_proof_datas' =
                          Pending(Pow2(merkle_tree_height - (height + 1)) \div 2)
               ELSE /\ pc' = "root_equality"
                    /\ thread_proof_datas' = NoTasks
            /\ UNCHANGED result
    /\ UNCHANGED <<debug_assertions, leaves, digests, root, tampered, steps, node,
                   node_result>>

\* Mutant of the collect: it returns without waiting for the tasks that are
\* still running.
FinishLevel_NoBarrier ==
    /\ pc = "level"
    /\ IF \E j \in 1..Len(thread_proof_datas) : thread_proof_datas[j].state = "failed"
       THEN /\ result' = Err("prove_failed")
            /\ pc' = "done"
            /\ UNCHANGED <<height, proof_datas, current_child_hash_index, proof_data_index,
                           thread_proof_datas>>
       ELSE /\ proof_datas' = proof_datas \o [j \in 1..Len(thread_proof_datas) |->
                                                  thread_proof_datas[j].out]
            /\ proof_data_index' = IF height = 0 THEN proof_data_index
                                   ELSE proof_data_index + chunk_size
            /\ current_child_hash_index' = current_child_hash_index + chunk_size
            /\ height' = height + 1
            /\ IF height + 1 < merkle_tree_height
               THEN /\ pc' = "level"
                    /\ thread_proof_datas' =
                          Pending(Pow2(merkle_tree_height - (height + 1)) \div 2)
               ELSE /\ pc' = "root_equality"
                    /\ thread_proof_datas' = NoTasks
            /\ UNCHANGED result
    /\ UNCHANGED <<debug_assertions, leaves, digests, root, tampered, steps, node,
                   node_result>>

\* Mutant of the collect: a failed task does not end proof(), the loop goes on
\* with whatever the tasks left.
FinishLevel_IgnoresFailure ==
    /\ pc = "level"
    /\ \A j \in 1..Len(thread_proof_datas) : thread_proof_datas[j].state # "pending"
    /\ proof_datas' = proof_datas \o [j \in 1..Len(thread_proof_datas) |->
                                          thread_proof_datas[j].out]
    /\ proof_data_index' = IF height = 0 THEN proof_data_index
                           ELSE proof_data_index + chunk_size
    /\ current_child_hash_index' = current_child_hash_index + chunk_size
    /\ height' = height + 1
    /\ IF height + 1 < merkle_tree_height
       THEN /\ pc' = "level"
            /\ thread_proof_datas' = Pending(Pow2(merkle_tree_height - (height + 1)) \div 2)
       ELSE /\ pc' = "root_equality"
            /\ thread_proof_datas' = NoTasks
    /\ UNCHANGED <<debug_assertions, leaves, digests, root, tampered, steps, result, node,
                   node_result>>

\* The collect of a level returns: `?` leaves proof() on a failure, otherwise
\* the level's proofs are appended in position order and the loop goes on.
FinishLevel ==
    /\ pc = "level"
    /\ \A j \in 1..Len(thread_proof_datas) : thread_proof_datas[j].state # "pending"
    /\ IF \E j \in 1..Len(thread_proof_datas) : thread_proof_datas[j].state = "failed"
       THEN /\ result' = Err("prove_failed")
            /\ pc' = "done"
            /\ UNCHANGED <<height, proof_datas, current_child_hash_index, proof_data_index,
                           thread_proof_datas>>
       ELSE /\ proof_datas' = proof_datas \o [j \in 1..Len(thread_proof_datas) |->
                                                  thread_proof_datas[j].out]
            /\ proof_data_index' = IF height = 0 THEN proof_data_index
                                   ELSE proof_data_index + chunk_size
            /\ current_child_hash_index' = current_child_hash_index + chunk_size
            /\ height' = height + 1
            /\ IF height + 1 < merkle_tree_height
               THEN /\ pc' = "level"
                    /\ thread_proof_datas' =
                          Pending(Pow2(merkle_tree_height - (height + 1)) \div 2)
               ELSE /\ pc' = "root_equality"
                    /\ thread_proof_datas' = NoTasks
            /\ UNCHANGED result
    /\ UNCHANGED <<debug_assertions, leaves, digests, root, tampered, steps, node,
                   node_result>>

\* The circuit built after the loop: two virtual hashes, connected.
RootEqualityCircuit ==
    [gates |-> <<>>,
     connects |-> connect_hashes(add_virtual_hash("root_hash"),
                                 add_virtual_hash("last_digest_hash")),
     public_inputs |-> <<>>,
     panicked |-> FALSE]

\* Mutant of the witness: both hashes are set from the last digest.
RootEqualityWitness_BothLastDigest ==
    [values |-> set_targets(add_virtual_hash("root_hash"), Last(digests))
                @@ set_targets(add_virtual_hash("last_digest_hash"), Last(digests)),
     proofs |-> <<>>]

RootEqualityWitness ==
    [values |-> set_targets(add_virtual_hash("root_hash"), root)
                @@ set_targets(add_virtual_hash("last_digest_hash"), Last(digests)),
     proofs |-> <<>>]

RootEquality ==
    /\ pc = "root_equality"
    /\ LET out == prove("RootEquality", RootEqualityCircuit, RootEqualityWitness)
       IN  /\ result' = out
           /\ steps' = steps \cup {[height |-> height, position |-> 0,
                                     gadget |-> "RootEquality", ok |-> out.status = "ok"]}
    /\ pc' = "done"
    /\ UNCHANGED <<debug_assertions, leaves, digests, root, tampered, height, proof_datas,
                   current_child_hash_index, proof_data_index, thread_proof_datas,
                   node, node_result>>

Next ==
    \/ \E i \in 0..(Len(digests) - 1), d \in TamperDigests : TamperDigest(i, d)
    \/ \E i \in 0..(Len(leaves) - 1), data \in TamperLeaves : TamperLeaf(i, data)
    \/ \E d \in TamperDigests : TamperRoot(d)
    \/ BeginProof
    \/ \E position \in 0..(Len(thread_proof_datas) - 1) : RunTask(position)
    \/ \E position \in 0..(Len(thread_proof_datas) - 1) : SkipTask(position)
    \/ FinishLevel
    \/ RootEquality

Spec == Init /\ [][Next]_vars

(***************************************************************************)
(* A gadget on its own, as the unit tests of pairwise_hash.rs and          *)
(* recursive_hash.rs build it: constructed with new, a pub(crate) field    *)
(* possibly overwritten, then proved.                                      *)
(***************************************************************************)
\* Digests and data of the unit tests.
NodeHashes == {hash_or_noop(<<ZERO>>), hash_or_noop(<<ONE>>)}

NodeData == {<<ZERO>>, <<ONE>>, <<ONE, ZERO>>, <<ZERO, ONE, ONE, ONE, ONE>>, <<Fe(255)>>}

NodeDataHashes == NodeHashes \cup {hash_or_noop(<<ZERO, ONE, ONE, ONE, ONE>>)}

\* The digest test_recursive_pairwise_hash_fails_if_hash_is_invalid writes.
NodeTamperHash == hash_or_noop(<<Fe(255)>>)

\* The child proofs handed to RecursiveHash::new: the tests prove a circuit
\* that registers one hash as its public inputs; a ProofData is a plain
\* struct, so its proof may also be one no prover produced (genuine FALSE),
\* and its circuit may expose fewer or more public inputs than four.
ChildProofs ==
    {[gadget |-> "PublicHash", public_inputs |-> pis, genuine |-> g, inner |-> <<>>] :
        pis \in NodeHashes \cup {NodeTamperHash, <<ONE, ZERO, ZERO>>,
                                  <<ONE, ZERO, ZERO, ZERO, ZERO>>},
        g \in BOOLEAN}

\* The gadgets as new returns them; overwritten names the fields written
\* since.
NodeInputs ==
    {[kind |-> "recursive",
      self |-> RecursivePairwiseHashNew(RecursiveHashNew(lh, lp), RecursiveHashNew(rh, rp)),
      overwritten |-> {}] :
        lh \in NodeHashes, lp \in ChildProofs, rh \in NodeHashes, rp \in ChildProofs}
    \cup
    {[kind |-> "pairwise", self |-> PairwiseHashNew(ld, lh, rd, rh), overwritten |-> {}] :
        ld \in NodeData, lh \in NodeDataHashes, rd \in NodeData, rh \in NodeDataHashes}

InitGadget ==
    /\ debug_assertions = TRUE
    /\ leaves = <<>>
    /\ digests = <<>>
    /\ root = <<>>
    /\ tampered = Untampered
    /\ pc = "idle"
    /\ height = 0
    /\ proof_datas = <<>>
    /\ current_child_hash_index = 0
    /\ proof_data_index = 0
    /\ thread_proof_datas = NoTasks
    /\ steps = {}
    /\ result = Err("none")
    /\ node \in NodeInputs
    /\ node_result = Err("none")

\* The left child's claimed hash is overwritten after new; parent_hash keeps
\* the value new computed.
NodeSetLeftHash(h) ==
    /\ node.kind # "none"
    /\ node_result.status = "none"
    /\ IF node.kind = "recursive"
       THEN /\ node.self.left_recursive_hash.hash # h
            /\ node' = [node EXCEPT !.self.left_recursive_hash.hash = h,
                                    !.overwritten = @ \cup {"left_hash"}]
       ELSE /\ node.self.left_child.hash # h
            /\ node' = [node EXCEPT !.self.left_child.hash = h,
                                    !.overwritten = @ \cup {"left_hash"}]
    /\ UNCHANGED <<tree_vars, node_result>>

\* Provable::proof on the gadget.
NodeProof ==
    /\ node.kind # "none"
    /\ node_result.status = "none"
    /\ node_result' = IF node.kind = "recursive"
                      THEN RecursivePairwiseHashProof(node.self)
                      ELSE PairwiseHashProof(node.self)
    /\ UNCHANGED <<tree_vars, node>>

NextGadget ==
    \/ NodeSetLeftHash(NodeTamperHash)
    \/ NodeProof

SpecGadget == InitGadget /\ [][NextGadget]_vars

(***************************************************************************)
(* Vocabulary of the properties.                                           *)
(***************************************************************************)
NumLeaves == Len(leaves)

\* The input create accepts: a power of two, at least two leaves.
WellFormed == is_power_of_two(NumLeaves) /\ NumLeaves > 1

Done == pc = "done"

\* The reference computation: hash every leaf, then hash consecutive pairs,
\* level after level, until one digest is left.
RECURSIVE PairUp(_)
PairUp(level) ==
    IF Len(level) = 1 THEN level[1]
    ELSE PairUp([j \in 1..(Len(level) \div 2) |->
                    hash_or_noop(level[2 * j - 1] \o level[2 * j])])

ReferenceRoot(data) == PairUp([i \in 1..Len(data) |-> hash_or_noop(data[i])])

\* Index in digests of the first node of tree level m (0 = leaf digests).
LevelStart(m) == Pow2(merkle_tree_height + 1) - Pow2(merkle_tree_height - m + 1)

\* The tree level of digests[i]; the ascent reads it at height m, and the
\* last digest (level merkle_tree_height) is read by the root-equality step.
DigestLevel(i) ==
    CHOOSE m \in 0..merkle_tree_height :
        LevelStart(m) <= i /\ i < LevelStart(m) + Pow2(merkle_tree_height - m)

StepRan(h, position, ok) ==
    \E s \in steps : s.height = h /\ s.position = position /\ s.ok = ok

\* Every task of every height below h ran and succeeded.
LevelsBelowSucceeded(h) ==
    \A k \in 0..(h - 1) :
        \A position \in 0..(Pow2(merkle_tree_height - k) \div 2 - 1) :
            StepRan(k, position, TRUE)

RootStepRan(ok) ==
    \E s \in steps : s.gadget = "RootEquality" /\ s.ok = ok

\* A proof together with every proof its witness held, transitively.
RECURSIVE ProofsUnder(_)
ProofsUnder(pd) ==
    {pd} \cup UNION {ProofsUnder(pd.inner[i]) : i \in 1..Len(pd.inner)}

(***************************************************************************)
(* Properties.                                                             *)
(***************************************************************************)
\* C1: when proof returns Ok for a tree of a power-of-two number >= 2 of
\* leaves, whatever was overwritten after create, root is the iterated
\* pairwise hash of the leaves.
C1_ProofOkOnlyForTrueRoot ==
    (Done /\ WellFormed /\ result.status = "ok") => root = ReferenceRoot(leaves)

\* C2: for a power-of-two number >= 2 of leaves the root create returns is
\* the root of the reference computation.
C2_CreateRootIsReferenceRoot ==
    (WellFormed /\ tampered = Untampered) => root = ReferenceRoot(leaves)

C2_Witness ==
    /\ pc = "created" /\ tampered = Untampered /\ NumLeaves = 4
    /\ Len(leaves[1]) > NUM_HASH_OUT_ELTS
    /\ root = ReferenceRoot(leaves)

\* C3: after create, digests has 2n-1 entries, the first n are the leaf
\* hashes, entry n+j is the hash of entries 2j and 2j+1, and root is the
\* last entry.
C3_DigestLayout ==
    (WellFormed /\ tampered = Untampered) =>
        /\ Len(digests) = 2 * NumLeaves - 1
        /\ \A i \in 0..(NumLeaves - 1) : At(digests, i) = hash_or_noop(At(leaves, i))
        /\ \A j \in 0..(NumLeaves - 2) :
              At(digests, NumLeaves + j) =
                  hash_or_noop(At(digests, 2 * j) \o At(digests, 2 * j + 1))
        /\ root = Last(digests)

C3_Witness ==
    /\ pc = "created" /\ tampered = Untampered /\ NumLeaves = 4
    /\ Len(digests) = 7
    /\ At(digests, 6) = hash_or_noop(At(digests, 4) \o At(digests, 5))
    /\ At(digests, 4) # At(digests, 5)

\* C4: for an unmodified tree of a power-of-two number >= 2 of leaves every
\* task of every level succeeds, the root-equality step succeeds, proof
\* returns Ok and the returned proof verifies.
C4_ValidTreeProves ==
    (Done /\ WellFormed /\ tampered = Untampered) =>
        /\ LevelsBelowSucceeded(merkle_tree_height)
        /\ RootStepRan(TRUE)
        /\ \A s \in steps : s.ok
        /\ result.status = "ok"
        /\ verify(result.proof_data)

C4_Witness ==
    /\ Done /\ tampered = Untampered /\ NumLeaves = 4
    /\ Len(proof_datas) = 3
    /\ result.status = "ok"

\* C5: the ProofData a successful proof returns is the top proof of the
\* ascent or holds it, and through it every proof of the levels below.
C5_ReturnedProofCoversAscent ==
    (Done /\ WellFormed /\ result.status = "ok") =>
        \A p \in 1..Len(proof_datas) : proof_datas[p] \in ProofsUnder(result.proof_data)

\* C6: with exactly one stored digest replaced by a different one, proof
\* does not succeed, every task below the level that reads that digest ran
\* and succeeded, and the failing step is at that level (the root-equality
\* step for the last digest).
C6_TamperedDigestFailsWhereRead ==
    (Done /\ WellFormed /\ tampered.digest >= 0 /\ tampered.leaf = -1 /\ ~tampered.root) =>
        LET level == DigestLevel(tampered.digest)
        IN  /\ result.status # "ok"
            /\ LevelsBelowSucceeded(level)
            /\ \A s \in steps : s.height < level => s.ok
            /\ \A s \in steps : s.height <= level
            /\ IF level = merkle_tree_height
               THEN RootStepRan(FALSE)
               ELSE StepRan(level, (tampered.digest - LevelStart(level)) \div 2, FALSE)

C6_Witness ==
    /\ Done /\ NumLeaves = 4 /\ tampered = [digest |-> 5, leaf |-> -1, root |-> FALSE]
    /\ StepRan(0, 0, TRUE) /\ StepRan(0, 1, TRUE) /\ StepRan(1, 0, FALSE)
    /\ result.status # "ok"

\* C7: with one leaf's data replaced so that its hash is no longer the stored
\* digest, the PairwiseHash step of that leaf's pair fails and proof does
\* not succeed.
C7_TamperedLeafFailsItsPair ==
    (/\ Done /\ WellFormed
     /\ tampered.leaf >= 0 /\ tampered.digest = -1 /\ ~tampered.root
     /\ hash_or_noop(At(leaves, tampered.leaf)) # At(digests, tampered.leaf)) =>
        /\ result.status # "ok"
        /\ \E s \in steps : /\ s.gadget = "PairwiseHash"
                             /\ s.position = tampered.leaf \div 2
                             /\ ~s.ok

C7_Witness ==
    /\ Done /\ NumLeaves = 4 /\ tampered = [digest |-> -1, leaf |-> 3, root |-> FALSE]
    /\ hash_or_noop(At(leaves, 3)) # At(digests, 3)
    /\ StepRan(0, 1, FALSE)
    /\ result.status # "ok"

\* C8: with only root replaced by a digest other than the last stored
\* digest, every task of every level succeeds, the root-equality step fails
\* and proof does not succeed.
C8_TamperedRootFailsLastStep ==
    (Done /\ WellFormed /\ tampered = [digest |-> -1, leaf |-> -1, root |-> TRUE]) =>
        /\ LevelsBelowSucceeded(merkle_tree_height)
        /\ \A s \in steps : s.gadget # "RootEquality" => s.ok
        /\ RootStepRan(FALSE)
        /\ result.status # "ok"

C8_Witness ==
    /\ Done /\ NumLeaves = 4 /\ tampered = [digest |-> -1, leaf |-> -1, root |-> TRUE]
    /\ Len(proof_datas) = 3
    /\ RootStepRan(FALSE)

\* C10: when the number of leaves is not a power of two or is below two,
\* create followed by proof never returns Ok and no PairwiseHash proving
\* step is ever started.
C10_MalformedInputRejected ==
    ~WellFormed =>
        /\ result.status # "ok"
        /\ \A s \in steps : s.gadget # "PairwiseHash"

\* C9: RecursivePairwiseHash::proof succeeds only when both child proofs are
\* valid proofs of their circuits.
C9_ForgedChildProofRejected ==
    (node.kind = "recursive" /\ node_result.status = "ok") =>
        /\ verify(node.self.left_recursive_hash.proof_data)
        /\ verify(node.self.right_recursive_hash.proof_data)

\* A PairwiseHash or RecursivePairwiseHash step of the ascent that failed.
FailedAscentSteps == {s \in steps : s.gadget # "RootEquality" /\ ~s.ok}

\* C11: once a PairwiseHash or RecursivePairwiseHash step has failed, no step
\* of a higher level and no root-equality step is ever started, proof never
\* returns Ok or a ProofData, and what it returns is the failure.
C11_FailFastAggregate ==
    \A s \in FailedAscentSteps :
        /\ \A t \in steps : t.gadget # "RootEquality" /\ t.height <= s.height
        /\ height = s.height
        /\ result.status # "ok"
        /\ result.proof_data = NoProofData
        /\ Done => result.status = "prove_failed"

C11_Witness ==
    /\ Done /\ NumLeaves = 4
    /\ StepRan(0, 0, TRUE) /\ StepRan(0, 1, FALSE)
    /\ \A t \in steps : t.height = 0
    /\ result.status = "prove_failed"

\* C12: when a step of the ascent has failed, the error proof returns names
\* the failing node by its level and position.
C12_ErrorIdentifiesFailingNode ==
    (Done /\ FailedAscentSteps # {}) =>
        \E s \in FailedAscentSteps :
            \E c \in 1..Len(result.context) :
                result.context[c] = [level |-> s.height, position |-> s.position]

\* Index in proof_datas of the proof of the node at `position` of level m:
\* the levels below m hold LevelStart(m + 1) - 2^merkle_tree_height proofs.
ProofIndex(m, position) == LevelStart(m + 1) - Pow2(merkle_tree_height) + position

\* C13: under every order of the tasks, a node of a level above 0 is started
\* only when every task of every level below has completed, and the proofs
\* of its two children are then stored in proof_datas.
C13_LevelBarrier ==
    \A s \in steps :
        s.gadget # "RootEquality" =>
            /\ LevelsBelowSucceeded(s.height)
            /\ s.height > 0 =>
                  \A child \in {2 * s.position, 2 * s.position + 1} :
                      /\ ProofIndex(s.height - 1, child) < Len(proof_datas)
                      /\ At(proof_datas, ProofIndex(s.height - 1, child)).gadget # "none"

C13_Witness ==
    /\ NumLeaves = 4 /\ height = 1
    /\ StepRan(0, 0, TRUE) /\ StepRan(0, 1, TRUE) /\ StepRan(1, 0, TRUE)
    /\ Len(proof_datas) = 2

\* The proving step of the node at `position` of level m, given the proofs
\* of the levels below in pds: what one thread computes for that node.
NodeProofAt(m, position, pds) ==
    LET left == LevelStart(m) + 2 * position
    IN  IF m = 0
        THEN PairwiseHashProof(PairwiseHashNew(At(leaves, left), At(digests, left),
                                               At(leaves, left + 1), At(digests, left + 1)))
        ELSE RecursivePairwiseHashProof(RecursivePairwiseHashNew(
                 RecursiveHashNew(At(digests, left),
                                  At(pds, ProofIndex(m - 1, 2 * position))),
                 RecursiveHashNew(At(digests, left + 1),
                                  At(pds, ProofIndex(m - 1, 2 * position + 1)))))

\* The ascent run by one thread from level m on, positions in increasing
\* order: whether a step failed, and the proofs stored until then.
RECURSIVE SequentialAscent(_, _)
SequentialAscent(m, pds) ==
    IF m >= merkle_tree_height THEN [failed |-> FALSE, proof_datas |-> pds]
    ELSE LET n == Pow2(merkle_tree_height - m) \div 2
             outs == Vec([j \in 1..n |-> NodeProofAt(m, j - 1, pds)])
         IN  IF \E j \in 1..n : outs[j].status # "ok"
             THEN [failed |-> TRUE, proof_datas |-> pds]
             ELSE SequentialAscent(m + 1, pds \o Vec([j \in 1..n |-> outs[j].proof_data]))

\* C14: whatever the order in which the tasks of a level complete, and
\* whichever tasks are skipped after a failure, a finished task holds the
\* proof of the node of its own position, proof_datas holds the proofs the
\* one-thread ascent stores, each at the same index, and proof succeeds
\* exactly when the one-thread ascent and the root comparison succeed.
C14_OrderIndependent ==
    /\ (pc = "level" /\ WellFormed) =>
          \A j \in 1..Len(thread_proof_datas) :
              thread_proof_datas[j].state = "done" =>
                  thread_proof_datas[j].out =
                      NodeProofAt(height, j - 1, proof_datas).proof_data
    /\ (Done /\ WellFormed /\ result.status # "panic") =>
          LET sequential == SequentialAscent(0, <<>>)
          IN  /\ proof_datas = sequential.proof_datas
              /\ (result.status = "ok") <=>
                     (~sequential.failed /\ root = Last(digests))

\* The second task of level 0 failed before the first one was started.
C14_Witness ==
    /\ Done /\ NumLeaves = 4
    /\ thread_proof_datas[1].state = "skipped"
    /\ thread_proof_datas[2].state = "failed"
    /\ NodeProofAt(0, 0, <<>>).status = "ok"
    /\ SequentialAscent(0, <<>>).failed
    /\ result.status = "prove_failed"

\* C16: for every tree state in which the final root-equality step runs, it
\* succeeds exactly when the public output of the last proof of the ascent
\* (the top-level proof) equals root.
C16_RootStepComparesTopProofDigest ==
    (WellFormed /\ (RootStepRan(TRUE) \/ RootStepRan(FALSE))) =>
        (RootStepRan(TRUE) <=> Last(proof_datas).public_inputs = root)

NodeProved == node_result.status # "none"

\* C17: PairwiseHash::proof succeeds exactly when the hash of each child's
\* data is that child's hash and the hash of the two child hashes is
\* parent_hash; the public inputs of the proof are then the four elements
\* of parent_hash, nothing else.
C17_PairwiseHashProofIff ==
    (node.kind = "pairwise" /\ NodeProved) =>
        LET self == node.self
        IN  /\ (node_result.status = "ok") <=>
                  /\ hash_or_noop(self.left_child.data) = self.left_child.hash
                  /\ hash_or_noop(self.right_child.data) = self.right_child.hash
                  /\ hash_or_noop(self.left_child.hash \o self.right_child.hash)
                        = self.parent_hash
            /\ node_result.status = "ok" =>
                  /\ node_result.proof_data.public_inputs = self.parent_hash
                  /\ Len(node_result.proof_data.public_inputs) = NUM_HASH_OUT_ELTS

C17_Witness ==
    /\ node.kind = "pairwise" /\ node_result.status = "ok"
    /\ Len(node.self.left_child.data) > NUM_HASH_OUT_ELTS
    /\ node.self.left_child.hash # node.self.right_child.hash
    /\ node_result.proof_data.public_inputs = node.self.parent_hash

\* C18: RecursivePairwiseHash::proof fails when a child's claimed hash is
\* not the public inputs of that child's proof or parent_hash is not the
\* hash of the two claimed hashes; it fails when only left_recursive_hash.hash
\* was overwritten after new; and with two valid child proofs that expose
\* the claimed hashes and parent_hash their hash, it succeeds with
\* parent_hash as its public inputs.
C18_RecursiveProofChecksClaimedHashes ==
    (node.kind = "recursive" /\ NodeProved) =>
        LET self == node.self
            left == self.left_recursive_hash
            right == self.right_recursive_hash
            parent_ok == hash_or_noop(left.hash \o right.hash) = self.parent_hash
        IN  /\ (\/ left.proof_data.public_inputs # left.hash
                 \/ right.proof_data.public_inputs # right.hash
                 \/ ~parent_ok) => node_result.status # "ok"
            /\ node.overwritten = {"left_hash"} => node_result.status # "ok"
            /\ (/\ verify(left.proof_data) /\ verify(right.proof_data)
                 /\ left.proof_data.public_inputs = left.hash
                 /\ right.proof_data.public_inputs = right.hash
                 /\ parent_ok) =>
                    /\ node_result.status = "ok"
                    /\ node_result.proof_data.public_inputs = self.parent_hash

\* The left hash was overwritten with the digest the left child proof
\* exposes: only parent_hash, computed by new from the old hash, is wrong.
C18_Witness ==
    /\ node.kind = "recursive" /\ node.overwritten = {"left_hash"}
    /\ node.self.left_recursive_hash.proof_data.public_inputs
          = node.self.left_recursive_hash.hash
    /\ node.self.right_recursive_hash.proof_data.public_inputs
          = node.self.right_recursive_hash.hash
    /\ node_result.status = "prove_failed"

\* C19: when a child proof exposes fewer or more than four public inputs,
\* RecursivePairwiseHash::proof returns the prover's failure.
C19_WrongPublicInputCountFailsProving ==
    (/\ node.kind = "recursive" /\ NodeProved
     /\ \/ Len(node.self.left_recursive_hash.proof_data.public_inputs) # NUM_HASH_OUT_ELTS
        \/ Len(node.self.right_recursive_hash.proof_data.public_inputs) # NUM_HASH_OUT_ELTS) =>
        node_result.status = "prove_failed"

\* C20: as new returns it, a gadget's parent_hash is the hash of the two
\* child hashes it was given, whatever the child data or the child proofs,
\* and evaluate returns it.
C20_NewSetsParentHash ==
    (node.kind # "none" /\ node.overwritten = {}) =>
        IF node.kind = "pairwise"
        THEN /\ node.self.parent_hash =
                   hash_or_noop(node.self.left_child.hash \o node.self.right_child.hash)
             /\ PairwiseHashEvaluate(node.self) =
                   hash_or_noop(node.self.left_child.hash \o node.self.right_child.hash)
        ELSE /\ node.self.parent_hash =
                   hash_or_noop(node.self.left_recursive_hash.hash
                                \o node.self.right_recursive_hash.hash)
             /\ RecursivePairwiseHashEvaluate(node.self) =
                   hash_or_noop(node.self.left_recursive_hash.hash
                                \o node.self.right_recursive_hash.hash)

C20_Witness ==
    /\ node.kind = "pairwise" /\ node.overwritten = {}
    /\ hash_or_noop(node.self.left_child.data) # node.self.left_child.hash
    /\ hash_or_noop(node.self.right_child.data) # node.self.right_child.hash
    /\ node.self.parent_hash =
          hash_or_noop(node.self.left_child.hash \o node.self.right_child.hash)
    /\ node_result.status = "prove_failed"

\* The steps of the ascent run at level m.
StepsAt(m) == {s \in steps : s.gadget # "RootEquality" /\ s.height = m}

\* C21: for an unmodified tree of n = 2^h >= 2 leaves, level k of the ascent
\* has n/2^(k+1) tasks, PairwiseHash at level 0 and RecursivePairwiseHash
\* above; when proof returns, h levels were built, each task ran once, the
\* last level produced one proof and proof_datas holds n - 1 proofs, level
\* after level.
C21_LevelAndProofCounts ==
    (WellFormed /\ tampered = Untampered) =>
        /\ pc = "level" =>
              /\ height < merkle_tree_height
              /\ Len(thread_proof_datas) = NumLeaves \div Pow2(height + 1)
              /\ Len(proof_datas) = ProofIndex(height, 0)
        /\ \A s \in steps :
              s.gadget # "RootEquality" =>
                  s.gadget = IF s.height = 0 THEN "PairwiseHash"
                             ELSE "RecursivePairwiseHash"
        /\ Done =>
              /\ height = merkle_tree_height
              /\ \A k \in 0..(merkle_tree_height - 1) :
                    Cardinality(StepsAt(k)) = NumLeaves \div Pow2(k + 1)
              /\ Cardinality(StepsAt(merkle_tree_height - 1)) = 1
              /\ StepsAt(merkle_tree_height) = {}
              /\ Len(proof_datas) = NumLeaves - 1
              /\ \A k \in 0..(merkle_tree_height - 1) :
                    \A position \in 0..(NumLeaves \div Pow2(k + 1) - 1) :
                        At(proof_datas, ProofIndex(k, position)).gadget =
                            IF k = 0 THEN "PairwiseHash" ELSE "RecursivePairwiseHash"

C21_Witness ==
    /\ Done /\ NumLeaves = 4 /\ tampered = Untampered
    /\ Cardinality(StepsAt(0)) = 2 /\ Cardinality(StepsAt(1)) = 1
    /\ [p \in 1..Len(proof_datas) |-> proof_datas[p].gadget] =
          <<"PairwiseHash", "PairwiseHash", "RecursivePairwiseHash">>

====
